---- MODULE Spec2Model ----
(***************************************************************************)
(* Model of the aiDAPTIV+ demo backend: the SimulationOrchestrator's run   *)
(* (backend/services/orchestrator.py), the MemoryMonitor, the              *)
(* ContextManager and the streaming session handler (backend/api/          *)
(* websocket.py).  The run is an async generator; every yield appends one  *)
(* record to `events`, and the handler forwards every record but the       *)
(* memory ones to the client (`sent`).                                     *)
(***************************************************************************)
EXTENDS Integers, Sequences, FiniteSets, TLC

VARIABLES
    pc,                    \* position of the session / run
    aidaptiv_enabled,      \* feature flag (orchestrator.py:88)
    use_ollama,            \* config.USE_REAL_OLLAMA (orchestrator.py:148)
    ollama_available,      \* result of check_availability (orchestrator.py:161)
    sgp_loader,            \* TRUE iff the grounding profile loaded (orchestrator.py:137-145)
    chroma_client,         \* TRUE iff the retrieval index is available (context_manager.py:32-38)
    current_tier,          \* memory tier (orchestrator.py:117)
    dev_mode,              \* config.DEV_MODE as read by memory_tier_manager.py:61
    documents,             \* the run's document list (orchestrator.py:263)
    total_docs,            \* orchestrator.py:267
    doc_index,             \* loop variable of run_simulation
    docs_in_current_batch, \* orchestrator.py:282
    batch_size,            \* orchestrator.py:372
    current_model,         \* orchestrator.py:156
    metrics,               \* orchestrator.py:95-100
    unique,                \* orchestrator.py:103-106, one set per metric name
    cumulative_tokens,     \* orchestrator.py:109-110, <<input, output>>
    saved_metrics,         \* data/metrics.json, <<input, output>>
    mm_context_tokens,     \* MemoryMonitor.context_tokens
    mm_model_name,         \* MemoryMonitor.current_model_name
    baseline_swap_gb,      \* MemoryMonitor.baseline_swap_gb, in tenths of a GB
    should_crash,          \* the crash decision of the last per-document snapshot (orchestrator.py:328)
    active_documents,      \* ContextManager.active_documents
    total_tokens,          \* ContextManager.total_tokens
    vector_db,             \* contents of the retrieval index, in rank order
    events,                \* every event the run has yielded, in order
    sent,                  \* types of the messages sent to the client, in order
    monitor_task,          \* the periodic telemetry task of the session
    cycle_log,             \* one record per call of _run_agent_cycle
    call,                  \* arguments and results of the calls made on a component taken alone
    handler                \* websocket_analysis: "open" until its finally block has run

vars == <<pc, aidaptiv_enabled, use_ollama, ollama_available, sgp_loader, chroma_client,
          current_tier, dev_mode, documents, total_docs, doc_index,
          docs_in_current_batch, batch_size, current_model, metrics, unique,
          cumulative_tokens, saved_metrics, mm_context_tokens, mm_model_name,
          baseline_swap_gb, should_crash, active_documents, total_tokens,
          vector_db, events, sent, monitor_task, cycle_log, call, handler>>

(***************************************************************************)
(* Bounds of the model.                                                    *)
(***************************************************************************)
MaxDocs == 5

\* pacing: 0.2 s telemetry slots in the whole run (duration_seconds / 0.2)
DurationSlots == 4

(***************************************************************************)
(* Documents.  A document is identified by its kind; its position in the   *)
(* list is its name.                                                       *)
(***************************************************************************)
Kinds == {"readme", "transcript", "dossier", "image", "news", "social"}

Category(k) ==
    IF k \in {"readme", "transcript"} THEN "documentation" ELSE k

\* 'transcript' in current_doc.get('name', '').lower()
IsTranscript(k) == k = "transcript"

\* len(content) of a document of each kind
DocChars(k) ==
    CASE k = "readme" -> 4000
      [] k = "transcript" -> 120002
      [] k = "dossier" -> 10001
      [] k = "image" -> 22
      [] k = "news" -> 2403
      [] OTHER -> 800

\* est_tokens (orchestrator.py:591-592): len(doc_text) // 4
DocTokens(k) == DocChars(k) \div 4

get_priority(k) ==
    CASE k \in {"readme", "transcript"} -> 0
      [] k = "dossier" -> 1
      [] k = "image" -> 4
      [] OTHER -> 6

\* position of a kind in the list before the sort: README, dossiers, news,
\* social files, images, video transcripts
LoadOrder(k) ==
    CASE k = "readme" -> 0
      [] k = "dossier" -> 1
      [] k = "news" -> 2
      [] k = "social" -> 3
      [] k = "image" -> 4
      [] OTHER -> 5

\* the key the stable sort leaves the list ordered by
SortKey(k) == get_priority(k) * 10 + LoadOrder(k)

\* the lists _get_document_list can return: sorted, at most one README
DocumentLists ==
    UNION { { d \in [1..n -> Kinds] :
                /\ \A i \in 1..n : \A j \in 1..n :
                       i < j => SortKey(d[i]) <= SortKey(d[j])
                /\ \A i \in 1..n : \A j \in 1..n :
                       (d[i] = "readme" /\ d[j] = "readme") => i = j }
            : n \in 0..MaxDocs }

\* SCENARIOS[config_key].total_documents, used when the list is empty
ConfigTotalDocuments == 18

(***************************************************************************)
(* Events.                                                                 *)
(***************************************************************************)
Ev(type, idx, tag, aux, cycle) ==
    [type |-> type, idx |-> idx, tag |-> tag, aux |-> aux, cycle |-> cycle]

Types(evs) == [i \in 1..Len(evs) |-> evs[i].type]

\* websocket.py:69-74: every event but the memory events is sent
RECURSIVE Forwarded(_)
Forwarded(evs) ==
    IF evs = <<>> THEN <<>>
    ELSE IF Head(evs).type = "memory" THEN Forwarded(Tail(evs))
         ELSE <<Head(evs).type>> \o Forwarded(Tail(evs))

MetricNames == <<"key_topics", "patterns_detected", "insights_generated", "critical_flags">>

(***************************************************************************)
(* Model/Tier Selector (memory_tier_manager.py, orchestrator.py:403-417).  *)
(***************************************************************************)
Tiers == {"text_only", "standard", "pro"}

\* the tiers the available memory can give without the flag; "pro" selects
\* the same text and image models as "standard"
MemoryTiers == {"text_only", "standard"}

\* MemoryTierManager.detect_tier: the flag unlocks "pro", otherwise the tier
\* follows the available memory reported by the system
detect_tier(flag, memory_tier) == IF flag THEN "pro" ELSE memory_tier

\* TIER_MODELS[tier].get(feature), "" when the tier has no such feature
TierModel(dev, tier, feature) ==
    IF feature = "text_analysis"
    THEN (IF dev THEN "llama3.2:3b" ELSE "llama3.1:8b")
    ELSE IF tier = "text_only" THEN ""
         ELSE (IF dev THEN "llava:latest" ELSE "llava:13b")

_get_model_for_category(dev, tier, category) ==
    IF category = "image"
    THEN (IF TierModel(dev, tier, "image_analysis") = "" THEN "llava:13b"
          ELSE TierModel(dev, tier, "image_analysis"))
    ELSE TierModel(dev, tier, "text_analysis")

\* str.startswith('llava')
IsLlava(m) == m \in {"llava:13b", "llava:latest", "llava:34b", "llava"}

(***************************************************************************)
(* Agent workflow table (orchestrator.py:455-585): the single step of each *)
(* category, or no step for a category that is skipped.                    *)
(***************************************************************************)
HasSteps(k) == Category(k) \in {"dossier", "news", "image", "social"} \/ IsTranscript(k)

StepType(k) == IF Category(k) \in {"dossier", "news"} THEN "thought" ELSE "observation"

\* step.get('model', ''): only the image step names its model
StepOwnModel(dev, tier, k) ==
    IF Category(k) = "image" THEN _get_model_for_category(dev, tier, "image") ELSE ""

(***************************************************************************)
(* ThoughtData (schemas.py:48-58).                                         *)
(***************************************************************************)
ThoughtStatusLiteral == {"PROCESSING", "ACTIVE", "ANALYZING", "COMPLETE", "WARNING"}

\* pydantic validation of ThoughtData(status=...)
ThoughtDataValid(status) == status \in ThoughtStatusLiteral

(***************************************************************************)
(* Memory Monitor (memory_monitor.py).  Swap figures are in tenths of GB.  *)
(***************************************************************************)
CrashDeltaThreshold == 20

SwapReadings == {0, 15, 20, 21, 36}

BaselineReadings == {15}

\* model_sizes.get(model_name, 5.0) of set_model_size (memory_monitor.py:49-60),
\* in tenths of a GB; the monitor starts with the 5.0 of llama3.1:8b
ModelWeights(model_name) ==
    CASE model_name = "llama3.1:8b" -> 50
      [] model_name = "qwen2.5:14b" -> 90
      [] model_name = "qwen2.5:32b" -> 190
      [] model_name = "llava:13b" -> 80
      [] model_name = "llava:34b" -> 200
      [] model_name = "llava" -> 47
      [] OTHER -> 50

\* the swap usage compared with the threshold, the baseline ignored
CrashDecisionAbsolute(flag, baseline, swap) == ~flag /\ swap > CrashDeltaThreshold

\* the crash decided only while the growth is below five times the threshold
CrashDecisionWindow(flag, baseline, swap) ==
    ~flag /\ (swap - baseline) > CrashDeltaThreshold
          /\ (swap - baseline) < 5 * CrashDeltaThreshold

\* should_crash of calculate_memory (memory_monitor.py:119-125)
CrashDecision(flag, baseline, swap) == ~flag /\ (swap - baseline) > CrashDeltaThreshold

(***************************************************************************)
(* Metric Extractor (orchestrator.py:816-861).  A text is the sequence of  *)
(* its bracketed tags; a tag value is a sequence of characters.            *)
(***************************************************************************)
\* the metric a tag name counts for; re.IGNORECASE folds the tag name
MetricOfTag(name) ==
    CASE name \in {"TOPIC", "topic"} -> "key_topics"
      [] name \in {"PATTERN", "pattern"} -> "patterns_detected"
      [] name \in {"INSIGHT", "insight"} -> "insights_generated"
      [] OTHER -> "critical_flags"

RECURSIVE LStrip(_)
LStrip(v) == IF v # <<>> /\ Head(v) = " " THEN LStrip(Tail(v)) ELSE v

RECURSIVE RStrip(_)
RStrip(v) == IF v # <<>> /\ v[Len(v)] = " " THEN RStrip(SubSeq(v, 1, Len(v) - 1)) ELSE v

\* the value taken as matched, untrimmed
StripNothing(v) == v

\* str.strip()
Strip(v) == RStrip(LStrip(v))

\* pattern.findall(text) for one metric, stripped: the values in text order
RECURSIVE Matches(_, _)
Matches(text, name) ==
    IF text = <<>> THEN <<>>
    ELSE (IF MetricOfTag(Head(text).tag) = name THEN <<Strip(Head(text).value)>> ELSE <<>>)
         \o Matches(Tail(text), name)

\* no value is taken as seen before
AlreadySeenNever(value, usage_set) == FALSE

\* value in usage_set (orchestrator.py:852)
AlreadySeen(value, usage_set) == value \in usage_set

\* the inner loop of _extract_metrics for one metric: st = [seen, count, out]
RECURSIVE CountValues(_, _, _)
CountValues(vals, name, st) ==
    IF vals = <<>> THEN st
    ELSE IF AlreadySeen(Head(vals), st.seen)
         THEN CountValues(Tail(vals), name, st)
         ELSE CountValues(Tail(vals), name,
                  [seen |-> st.seen \cup {Head(vals)},
                   count |-> st.count + 1,
                   out |-> Append(st.out, [name |-> name, value |-> st.count + 1])])

\* one set of seen values for the four metrics
usage_set_shared(metric_name, u) == UNION {u[n] : n \in DOMAIN u}

\* the set of seen values of a metric (orchestrator.py:841-849)
usage_set(metric_name, u) == u[metric_name]

\* _extract_metrics(text) from the state (u, m): the new state and the events
ExtractOne(text, name, u, m) == CountValues(Matches(text, name), name,
                                    [seen |-> usage_set(name, u), count |-> m[name],
                                     out |-> <<>>])

_extract_metrics(text, u, m) ==
    LET r == [n \in {MetricNames[i] : i \in 1..4} |-> ExtractOne(text, n, u, m)]
    IN  [unique |-> [n \in DOMAIN r |-> r[n].seen],
         metrics |-> [n \in DOMAIN r |-> r[n].count],
         out |-> r[MetricNames[1]].out \o r[MetricNames[2]].out
                 \o r[MetricNames[3]].out \o r[MetricNames[4]].out]

Acme == <<"A", "c", "m", "e">>
VerticalIntegration == <<"v", "i">>
Tag(t, v) == [tag |-> t, value |-> v]

\* "We see [TOPIC: Acme] leading with [PATTERN: vertical integration]. [TOPIC: Acme] again."
TaggedText == <<Tag("TOPIC", Acme), Tag("PATTERN", VerticalIntegration), Tag("TOPIC", Acme)>>

\* the completed texts generate_step can yield: a text with tags, one without
LLMResponses == {TaggedText, <<>>}

\* prompt_eval_count / eval_count of a completed response
ResponseTokens == <<2, 1>>

(***************************************************************************)
(* Context Store (context_manager.py).  An active entry is [title, tokens, *)
(* chars]; an index entry is [title, chars, archived].                     *)
(***************************************************************************)
max_tokens_ram == 60000

\* the loop of _prune_context never entered
OverPruneTargetNever(t) == FALSE

\* a target of 50%: the loop goes on after the 90% target is met
OverPruneTargetHalf(t) == t * 10 > max_tokens_ram * 5

\* the 90% target of _prune_context: total_tokens > max_tokens_ram * 0.9
OverPruneTarget(t) == t * 10 > max_tokens_ram * 9

\* the oldest entry popped and archived, its tokens not subtracted
PopOldestKeepTotal(st) ==
    [active |-> Tail(st.active),
     total |-> st.total,
     db |-> IF Head(st.active).chars > 0
            THEN Append(st.db, [title |-> Head(st.active).title,
                                chars |-> Head(st.active).chars,
                                archived |-> TRUE])
            ELSE st.db]

\* one turn of the loop of _prune_context (context_manager.py:126-150): pop
\* the oldest entry, subtract its tokens, archive its content
PopOldest(st) ==
    [active |-> Tail(st.active),
     total |-> st.total - Head(st.active).tokens,
     db |-> IF Head(st.active).chars > 0
            THEN Append(st.db, [title |-> Head(st.active).title,
                                chars |-> Head(st.active).chars,
                                archived |-> TRUE])
            ELSE st.db]

\* _prune_context: st = [active, total, db]
RECURSIVE _prune_context(_)
_prune_context(st) ==
    IF OverPruneTarget(st.total) /\ st.active # <<>>
    THEN _prune_context(PopOldest(st))
    ELSE st

\* add_document(document, token_count) with the index available or not
add_document(active, total, db, chroma, title, chars, tokens) ==
    LET st == [active |-> Append(active, [title |-> title, tokens |-> tokens, chars |-> chars]),
               total |-> total + tokens,
               db |-> IF chroma /\ chars > 0
                      THEN Append(db, [title |-> title, chars |-> chars, archived |-> FALSE])
                      ELSE db]
    IN  IF st.total > max_tokens_ram /\ chroma THEN _prune_context(st) ELSE st

\* n_results of the index query (context_manager.py:184)
QueryResults == 10

\* chroma_client.query_similar(query, n_results=10)
query_similar(db) == SubSeq(db, 1, IF Len(db) < QueryResults THEN Len(db) ELSE QueryResults)

\* no budget test: every candidate is taken
OverBudgetNever(current_tokens, tokens, max_tokens) == FALSE

\* the budget test of retrieve_context (context_manager.py:207)
OverBudget(current_tokens, tokens, max_tokens) == current_tokens + tokens > max_tokens

\* no candidate is stripped by its title
ExcludedNever(doc_title, exclude_titles) == FALSE

\* the title test of retrieve_context (context_manager.py:194-195)
Excluded(doc_title, exclude_titles) == doc_title \in exclude_titles

\* the loop goes on with the next candidate after one has overflowed
RemainingAfterOverflowSkip(results) == Tail(results)

\* the break of retrieve_context (context_manager.py:207-209): no candidate
\* is examined after one has overflowed
RemainingAfterOverflow(results) == <<>>

\* the loop of retrieve_context: st = [docs, tokens, excluded]
RECURSIVE RetrieveLoop(_, _, _, _)
RetrieveLoop(results, max_tokens, exclude_titles, st) ==
    IF results = <<>> THEN st
    ELSE LET res == Head(results) IN
         IF Excluded(res.title, exclude_titles)
         THEN RetrieveLoop(Tail(results), max_tokens, exclude_titles,
                           [st EXCEPT !.excluded = @ + 1])
         ELSE IF res.chars = 0
         THEN RetrieveLoop(Tail(results), max_tokens, exclude_titles, st)
         ELSE IF OverBudget(st.tokens, res.chars \div 4, max_tokens)
         THEN RetrieveLoop(RemainingAfterOverflow(results), max_tokens, exclude_titles, st)
         ELSE RetrieveLoop(Tail(results), max_tokens, exclude_titles,
                           [st EXCEPT !.docs = Append(@, res),
                                      !.tokens = @ + (res.chars \div 4)])

\* documents_retrieved reports the candidates found
retrieval_info_of_candidates(results, st) ==
    [docs |-> st.docs, tokens |-> st.tokens, excluded |-> st.excluded,
     candidates |-> Len(results),
     documents_retrieved |-> Len(results),
     names |-> [i \in 1..Len(st.docs) |-> st.docs[i].title]]

\* the passages with their descriptor (context_manager.py:222-234):
\* tokens_retrieved, excluded_count, candidates_found, documents_retrieved,
\* retrieved_document_names
retrieval_info(results, st) ==
    [docs |-> st.docs, tokens |-> st.tokens, excluded |-> st.excluded,
     candidates |-> Len(results),
     documents_retrieved |-> Len(st.docs),
     names |-> [i \in 1..Len(st.docs) |-> st.docs[i].title]]

retrieve_context(db, chroma, max_tokens, exclude_titles) ==
    IF ~chroma THEN [docs |-> <<>>, tokens |-> 0, excluded |-> 0, candidates |-> 0,
                     documents_retrieved |-> 0, names |-> <<>>]
    ELSE LET results == query_similar(db)
         IN  retrieval_info(results,
                            RetrieveLoop(results, max_tokens, exclude_titles,
                                         [docs |-> <<>>, tokens |-> 0, excluded |-> 0]))

\* max_tokens of the orchestrator's retrieval call (orchestrator.py:658)
RagMaxTokens == 3000

\* the passages added to the prompt (orchestrator.py:672-686): a retrieved
\* passage is dropped when the hash of its leading content is that of a
\* batch document or of a passage already kept.  The content of a document
\* is identified by its title: a copy archived by _prune_context has both.
RECURSIVE rag_documents(_, _)
rag_documents(names, batch_content_hashes) ==
    IF names = <<>> THEN <<>>
    ELSE IF Head(names) \in batch_content_hashes
         THEN rag_documents(Tail(names), batch_content_hashes)
         ELSE <<Head(names)>>
              \o rag_documents(Tail(names), batch_content_hashes \cup {Head(names)})

(***************************************************************************)
(* Crash event (orchestrator.py:1011-1025).                                *)
(***************************************************************************)
\* total_docs of _create_crash_event for a tier other than "large"
CrashTotalDocs == 18

\* the <<total, doc_index>> with total <= 7 for which the double-precision
\* product 18 * ((((doc_index + 1) / total) * 100) / 100) falls just short
\* of the integer it equals exactly, e.g. 5.999999999999999 for <<3, 0>>
FloatFallsShort == {<<3, 0>>, <<3, 1>>, <<6, 0>>, <<6, 1>>, <<6, 3>>}

\* int(total_docs * (progress / 100)) with progress = (doc_index + 1) / total * 100,
\* computed in double precision and truncated
CrashProcessedDocs(i, total) ==
    (CrashTotalDocs * (i + 1)) \div total
        - (IF <<total, i>> \in FloatFallsShort THEN 1 ELSE 0)

(***************************************************************************)
(* Initial state: the environment a session starts in.                     *)
(***************************************************************************)
\* data/metrics.json as left by earlier runs
PersistedMetrics == <<7, 3>>

\* data/context_state.json as left by earlier runs: absent, or a stale entry
SavedContexts == {<<>>, <<[title |-> 0 - 1, tokens |-> 500, chars |-> 2000]>>}

\* count_tokens(ollama_context) of the corpus loaded at construction
CorpusTokens == 1234

ZeroMetrics == [n \in {MetricNames[i] : i \in 1..4} |-> 0]
NoValues == [n \in {MetricNames[i] : i \in 1..4} |-> {}]

\* a session makes its calls through the orchestrator only
NoCall == [op |-> "none"]

\* the variables set once, before the session starts
session_cfg == <<aidaptiv_enabled, use_ollama, ollama_available, sgp_loader,
                 chroma_client, current_tier, dev_mode, documents>>

\* the variables set once, before the session starts, and the record of
\* component calls, which a session leaves alone
cfg == <<aidaptiv_enabled, use_ollama, ollama_available, sgp_loader,
         chroma_client, current_tier, dev_mode, documents, call>>

\* settings that cannot influence a run are fixed to one value
Init ==
    /\ pc = "new"
    /\ aidaptiv_enabled \in BOOLEAN
    /\ use_ollama \in BOOLEAN
    /\ ollama_available \in (IF use_ollama THEN BOOLEAN ELSE {FALSE})
    /\ sgp_loader \in (IF ollama_available THEN BOOLEAN ELSE {TRUE})
    /\ chroma_client \in (IF ollama_available /\ sgp_loader THEN BOOLEAN ELSE {TRUE})
    /\ dev_mode \in (IF ollama_available /\ sgp_loader THEN BOOLEAN ELSE {FALSE})
    /\ \E mt \in (IF dev_mode THEN MemoryTiers ELSE {"standard"}) :
           current_tier = detect_tier(aidaptiv_enabled, mt)
    /\ documents \in (IF use_ollama /\ ~ollama_available THEN {<<>>} ELSE DocumentLists)
    /\ total_docs = 0
    /\ doc_index = 0
    /\ docs_in_current_batch = 0
    /\ batch_size = 0
    /\ current_model = "llama3.1:8b"
    /\ metrics = ZeroMetrics
    /\ unique = NoValues
    /\ cumulative_tokens = <<0, 0>>
    /\ saved_metrics = PersistedMetrics
    /\ mm_context_tokens = 0
    /\ mm_model_name = "llama3.1:8b"
    /\ baseline_swap_gb = 0
    /\ should_crash = FALSE
    /\ active_documents = <<>>
    /\ total_tokens = 0
    /\ vector_db = <<>>
    /\ events = <<>>
    /\ sent = <<>>
    /\ monitor_task = "none"
    /\ cycle_log = <<>>
    /\ call = NoCall
    /\ handler = "open"

\* the run yields evs; the handler forwards them (websocket.py:68-74)
Emit(evs) ==
    /\ events' = events \o evs
    /\ sent' = sent \o Forwarded(evs)

(***************************************************************************)
(* websocket_analysis, steps 2-3: construct the orchestrator, then start   *)
(* the periodic telemetry task (websocket.py:41-66, orchestrator.py:75-182)*)
(***************************************************************************)
\* the availability of the backend is not checked
ConstructionUnchecked(required, available) == TRUE

\* orchestrator.py:159-167: a required backend must be available
ConstructionSucceeds(required, available) == required => available

ConstructFails ==
    /\ pc = "new"
    /\ ~ConstructionSucceeds(use_ollama, ollama_available)
    /\ pc' = "failed"
    /\ handler' = "returned"
    /\ UNCHANGED <<cfg, total_docs, doc_index, docs_in_current_batch, batch_size,
                   current_model, metrics, unique, cumulative_tokens,
                   saved_metrics, mm_context_tokens, mm_model_name,
                   baseline_swap_gb, should_crash, active_documents,
                   total_tokens, vector_db, events, sent, monitor_task, cycle_log>>

Construct ==
    /\ pc = "new"
    /\ ConstructionSucceeds(use_ollama, ollama_available)
    /\ \E swap \in BaselineReadings : baseline_swap_gb' = swap
    /\ cumulative_tokens' = saved_metrics
    /\ \E saved \in SavedContexts :
           /\ active_documents' = saved
           /\ total_tokens' = IF saved = <<>> THEN 0 ELSE saved[1].tokens
    /\ mm_context_tokens' = IF use_ollama THEN CorpusTokens ELSE 0
    /\ mm_model_name' = "llama3.1:8b"
    /\ current_model' = "llama3.1:8b"
    /\ monitor_task' = "running"
    /\ pc' = "ready"
    /\ UNCHANGED <<handler, cfg, total_docs, doc_index, docs_in_current_batch, batch_size,
                   metrics, unique, saved_metrics, should_crash, vector_db,
                   events, sent, cycle_log>>

(***************************************************************************)
(* run_simulation up to the init event (orchestrator.py:207-282).          *)
(***************************************************************************)
\* the store keeps what load_state put into it
reset_context_skipped(active, total) == [active |-> active, total |-> total]

\* the reset of the Context Store before the document list is read
\* (orchestrator.py:255-260)
reset_context(active, total) == [active |-> <<>>, total |-> 0]

StartRun ==
    /\ pc = "ready"
    /\ mm_context_tokens' = 0
    /\ total_tokens' = reset_context(active_documents, total_tokens).total
    /\ active_documents' = reset_context(active_documents, total_tokens).active
    /\ total_docs' = IF Len(documents) > 0 THEN Len(documents) ELSE ConfigTotalDocuments
    /\ doc_index' = 0
    /\ docs_in_current_batch' = 0
    /\ Emit(<<Ev("status", 0, "loading", 0, 0)>>
            \o (IF use_ollama THEN <<Ev("status", 0, "preparing", 0, 0)>> ELSE <<>>)
            \o <<Ev("status", 0, "starting", 0, 0),
                 Ev("init", total_docs', "", 0, 0)>>)
    /\ pc' = "loop"
    /\ UNCHANGED <<handler, cfg, batch_size, current_model, metrics, unique,
                   cumulative_tokens, saved_metrics, mm_model_name,
                   baseline_swap_gb, should_crash, vector_db, monitor_task,
                   cycle_log>>

(***************************************************************************)
(* One iteration of the document loop up to the agent trigger              *)
(* (orchestrator.py:284-377).                                              *)
(***************************************************************************)
\* the size ceiling of a batch (orchestrator.py:368)
BatchCeiling == 4

\* category transition status messages (orchestrator.py:290-309)
TransitionStatus(i) ==
    LET cur == documents[i + 1] IN
    IF i = 0
    THEN (IF Category(cur) \in {"image", "dossier", "news"}
          THEN <<Ev("status", 0, Category(cur), 0, 0)>> ELSE <<>>)
    ELSE IF Category(cur) # Category(documents[i])
         THEN (IF Category(cur) \in {"image", "dossier", "news", "social"}
                  \/ (Category(cur) = "documentation" /\ IsTranscript(cur))
               THEN <<Ev("status", 0, Category(cur), 0, 0)>> ELSE <<>>)
         ELSE <<>>

\* the ceiling test off by one: count > 4
is_batch_complete_late(i, count) ==
    LET cur == documents[i + 1] IN
    \/ i + 1 >= total_docs
    \/ Category(cur) # Category(documents[i + 2])
    \/ Category(cur) = "image"
    \/ (Category(cur) = "documentation" /\ IsTranscript(cur))
    \/ count > 4

\* is_batch_complete (orchestrator.py:358-369) with the counter already incremented
is_batch_complete(i, count) ==
    LET cur == documents[i + 1] IN
    \/ i + 1 >= total_docs
    \/ Category(cur) # Category(documents[i + 2])
    \/ Category(cur) = "image"
    \/ (Category(cur) = "documentation" /\ IsTranscript(cur))
    \/ count >= BatchCeiling

\* MemoryEvent of calculate_memory: context_tokens and loaded_model
MemoryEv(c) == Ev("memory", mm_context_tokens, mm_model_name, ModelWeights(mm_model_name), c)

\* the crash check made before the memory event is yielded
IterationEventsCrashFirst(doc, status, memory, performance, crash) ==
    doc \o status \o crash \o memory \o performance

\* the order in which one iteration yields (orchestrator.py:315-350)
IterationEvents(doc, status, memory, performance, crash) ==
    doc \o status \o memory \o performance \o crash

\* the crash event is yielded but the loop is not left
NextPositionNoReturn(crashed, complete) ==
    IF complete THEN "cycle" ELSE "wait"

\* where the iteration goes after the crash check (orchestrator.py:342-395)
NextPosition(crashed, complete) ==
    IF crashed THEN "done" ELSE IF complete THEN "cycle" ELSE "wait"

\* the counter keeps its value when a batch closes
CounterAfterTriggerKept(count) == count

\* docs_in_current_batch = 0 when a batch closes (orchestrator.py:371-374)
CounterAfterTrigger(count) == 0

\* the flag test of the crash check inverted
CrashCheckFlagInverted(crash, flag) == crash /\ flag

\* the condition of the crash check (orchestrator.py:343)
CrashCheck(crash, flag) == crash /\ ~flag

\* the cycle is started and the loop goes on without waiting for its end
AtLoopHeadOrInCycle(position) == position \in {"loop", "cycle", "step"}

\* the for loop takes up a document only when the iteration before it,
\* the `async for` over its Agent Cycle included, is over
\* (orchestrator.py:284, 383-395)
AtLoopHead(position) == position = "loop"

ProcessDocumentIndexError ==
    /\ AtLoopHead(pc)
    /\ doc_index < total_docs
    /\ doc_index + 1 > Len(documents)
    /\ pc' = "raised"
    /\ UNCHANGED <<handler, cfg, total_docs, doc_index, docs_in_current_batch, batch_size,
                   current_model, metrics, unique, cumulative_tokens,
                   saved_metrics, mm_context_tokens, mm_model_name,
                   baseline_swap_gb, should_crash, active_documents,
                   total_tokens, vector_db, events, sent, monitor_task, cycle_log>>

ProcessDocument ==
    /\ AtLoopHead(pc)
    /\ doc_index < total_docs
    /\ doc_index + 1 <= Len(documents)
    /\ \E swap \in SwapReadings :
         LET cur == documents[doc_index + 1]
             crash == CrashDecision(aidaptiv_enabled, baseline_swap_gb, swap)
             crashed == CrashCheck(crash, aidaptiv_enabled)
             count == docs_in_current_batch + 1
             pos == NextPosition(crashed, is_batch_complete(doc_index, count))
         IN  /\ should_crash' = crash
             /\ pc' = pos
             /\ batch_size' = IF pos = "cycle" THEN count ELSE batch_size
             /\ docs_in_current_batch' =
                    IF pos = "cycle" THEN CounterAfterTrigger(count)
                    ELSE IF pos = "wait" THEN count ELSE docs_in_current_batch
             /\ cycle_log' =
                    IF pos = "cycle"
                    THEN Append(cycle_log, [doc_index |-> doc_index,
                                            batch_size |-> count,
                                            category |-> Category(cur)])
                    ELSE cycle_log
             /\ Emit(TransitionStatus(doc_index)
                     \o IterationEvents(
                          <<Ev("document", doc_index, Category(cur), total_docs, 0)>>,
                          <<Ev("document_status", doc_index, "processing", 0, 0)>>,
                          <<MemoryEv(0)>>,
                          IF use_ollama THEN <<>> ELSE <<Ev("performance", 0, "", 0, 0)>>,
                          IF crashed
                          THEN <<Ev("crash", CrashProcessedDocs(doc_index, total_docs),
                                    "", CrashTotalDocs, 0)>>
                          ELSE <<>>)
                     \o (IF pos = "cycle" THEN <<Ev("status", 0, "analyzing", 0, 0)>> ELSE <<>>))
    /\ UNCHANGED <<handler, cfg, total_docs, doc_index, current_model, metrics, unique,
                   cumulative_tokens, saved_metrics, mm_context_tokens,
                   mm_model_name, baseline_swap_gb, active_documents,
                   total_tokens, vector_db, monitor_task>>

(***************************************************************************)
(* _wait_with_telemetry(interval) (orchestrator.py:184-198, 392-395).      *)
(***************************************************************************)
\* steps = int(duration / 0.2) with duration = duration_seconds / total_docs
PacingSteps(total) == DurationSlots \div total

WaitWithTelemetry ==
    /\ pc = "wait"
    /\ Emit([i \in 1..PacingSteps(total_docs) |-> MemoryEv(0)])
    /\ doc_index' = doc_index + 1
    /\ pc' = "loop"
    /\ UNCHANGED <<handler, cfg, total_docs, docs_in_current_batch, batch_size,
                   current_model, metrics, unique, cumulative_tokens,
                   saved_metrics, mm_context_tokens, mm_model_name,
                   baseline_swap_gb, should_crash, active_documents,
                   total_tokens, vector_db, monitor_task, cycle_log>>

(***************************************************************************)
(* _run_agent_cycle up to the step loop (orchestrator.py:419-716).         *)
(***************************************************************************)
CycleId == Len(cycle_log)

\* indices doc_index - (batch_size - 1) + i, i in range(batch_size), that
\* pass the range check (orchestrator.py:624-627, 794-796)
BatchIndices(i, size) == {j \in (i - (size - 1))..i : j >= 0 /\ j <= i}

\* the cycle returns without a step: backend off (428-429), or no workflow
\* for the category of the closing document (583-585)
CycleReturnsEarly(ollama, k) == ~ollama \/ ~HasSteps(k)

AgentCycleSkip ==
    /\ pc = "cycle"
    /\ ~use_ollama \/ sgp_loader
    /\ CycleReturnsEarly(use_ollama, documents[doc_index + 1])
    /\ doc_index' = doc_index + 1
    /\ pc' = "loop"
    /\ UNCHANGED <<handler, cfg, total_docs, docs_in_current_batch, batch_size,
                   current_model, metrics, unique, cumulative_tokens,
                   saved_metrics, mm_context_tokens, mm_model_name,
                   baseline_swap_gb, should_crash, active_documents,
                   total_tokens, vector_db, events, sent, monitor_task, cycle_log>>

\* RuntimeError("Semantic Grounding Profile is required but not loaded")
AgentCycleNoSGP ==
    /\ pc = "cycle"
    /\ use_ollama /\ ~sgp_loader
    /\ pc' = "raised"
    /\ UNCHANGED <<handler, cfg, total_docs, doc_index, docs_in_current_batch, batch_size,
                   current_model, metrics, unique, cumulative_tokens,
                   saved_metrics, mm_context_tokens, mm_model_name,
                   baseline_swap_gb, should_crash, active_documents,
                   total_tokens, vector_db, events, sent, monitor_task, cycle_log>>

\* an exception of the index leaves the Context Store and the cycle
PositionAfterAdmitUncaught(index_raises, count_raises, query_raises) ==
    IF index_raises \/ count_raises \/ query_raises THEN "raised" ELSE "step"

\* where the cycle goes after the admit and the retrieval: every exception
\* of the index is caught and logged (context_manager.py:60-86,
\* chroma_client.py:89-98 and 118-136, orchestrator.py:706-707)
PositionAfterAdmit(index_raises, count_raises, query_raises) == "step"

\* the part of the cycle from the admit to the retrieval
\* (orchestrator.py:587-716), the index taking its faults as inputs:
\* collection.add raises (add_documents returns 0), collection.count raises
\* (no storage descriptor), collection.query raises (no candidates)
AgentCycleBeginWith(index_raises, count_raises, query_raises) ==
    /\ pc = "cycle"
    /\ use_ollama /\ sgp_loader
    /\ ~CycleReturnsEarly(use_ollama, documents[doc_index + 1])
    /\ LET cur == documents[doc_index + 1]
           ok == add_document(active_documents, total_tokens, vector_db,
                              chroma_client, doc_index, DocChars(cur), DocTokens(cur))
           st == [ok EXCEPT !.db = IF index_raises THEN vector_db ELSE @]
           batch_ids == BatchIndices(doc_index, batch_size)
           r == retrieve_context(IF query_raises THEN <<>> ELSE st.db,
                                 chroma_client, RagMaxTokens, batch_ids)
       IN  /\ active_documents' = st.active
           /\ total_tokens' = st.total
           /\ vector_db' = st.db
           /\ mm_context_tokens' = st.total
           /\ Emit((IF chroma_client /\ ~count_raises
                    THEN <<Ev("rag_storage", doc_index, "", Len(st.db), CycleId)>>
                    ELSE <<>>)
                   \o (IF chroma_client /\ r.docs # <<>>
                       THEN <<Ev("rag_retrieval", r.documents_retrieved, r.names,
                                 r.excluded, CycleId)>>
                       ELSE <<>>))
    /\ pc' = PositionAfterAdmit(index_raises, count_raises, query_raises)
    /\ UNCHANGED <<handler, session_cfg, total_docs, doc_index, docs_in_current_batch,
                   batch_size, current_model, metrics, unique, cumulative_tokens,
                   saved_metrics, mm_model_name, baseline_swap_gb, should_crash,
                   monitor_task, cycle_log>>

AgentCycleBegin ==
    /\ AgentCycleBeginWith(FALSE, FALSE, FALSE)
    /\ UNCHANGED call

(***************************************************************************)
(* The step of the cycle (orchestrator.py:717-813).                        *)
(***************************************************************************)
\* step.get('model', default_model)
StepModel(k) ==
    IF StepOwnModel(dev_mode, current_tier, k) # ""
    THEN StepOwnModel(dev_mode, current_tier, k)
    ELSE _get_model_for_category(dev_mode, current_tier, Category(k))

\* the memory event of a swap read before the monitor is told of the model
SwapEventsStaleMemory(m) ==
    IF m # current_model
    THEN <<Ev("status", 0, "swap", 0, CycleId), MemoryEv(CycleId)>>
    ELSE <<>>

\* status + memory events of a model swap (orchestrator.py:721-730)
SwapEvents(m) ==
    IF m # current_model
    THEN <<Ev("status", 0, "swap", 0, CycleId),
           Ev("memory", mm_context_tokens, m, ModelWeights(m), CycleId)>>
    ELSE <<>>

MetricEvs(out) == [i \in 1..Len(out) |-> Ev("metric", out[i].value, out[i].name, 0, CycleId)]

\* only the closing document of the batch is marked
AnalyzedEvsLastOnly(i, size) ==
    <<Ev("document_status", i, "vram", 0, CycleId)>>

\* DocumentStatusEvent "vram" for the documents of the batch (orchestrator.py:794-798)
AnalyzedEvs(i, size) ==
    [n \in 1..Cardinality(BatchIndices(i, size)) |->
        Ev("document_status", i - Cardinality(BatchIndices(i, size)) + n, "vram", 0, CycleId)]

\* the documents marked analyzed before the thought is yielded
StepOutputMarkFirst(thought, performance, metric_events, analyzed) ==
    analyzed \o thought \o performance \o metric_events

\* the order in which a completed step yields (orchestrator.py:765-798)
StepOutput(thought, performance, metric_events, analyzed) ==
    thought \o performance \o metric_events \o analyzed

\* the second pass made whenever the first found nothing
FallbackDueWheneverEmpty(metric_events, own_model, step_type) ==
    metric_events = <<>>

\* the condition of the two-pass extraction (orchestrator.py:782):
\* not metric_events and (step.get('model', '').startswith('llava') or
\* "observation" in step['type'])
FallbackDue(metric_events, own_model, step_type) ==
    metric_events = <<>> /\ (IsLlava(own_model) \/ step_type = "observation")

\* the extraction of a step (orchestrator.py:778-789, 1027-1064): the
\* primary extraction over the completed text and, when it is due, the
\* extraction over the text the second pass returns (empty when that call
\* fails); u and m are the sets and counters before the step
StepExtraction(text, second, own_model, step_type, u, m) ==
    LET first == _extract_metrics(text, u, m)
        ran == FallbackDue(first.out, own_model, step_type)
    IN  [ran |-> ran,
         final |-> IF ran THEN _extract_metrics(second, first.unique, first.metrics)
                   ELSE first]

\* the two counters written to the file in the wrong order
save_metrics_swapped(cumulative_input, cumulative_output) ==
    <<cumulative_output, cumulative_input>>

\* SessionManager.save_metrics (session_manager.py:54-67): the file holds
\* the two counters it is given
save_metrics(cumulative_input, cumulative_output) ==
    <<cumulative_input, cumulative_output>>

\* the results generate_step yields: a completed text with its token counts
\* (the "[Error: ...]" text of a failed backend call is a text without tags)
StepResults == {[text |-> t, tokens |-> ResponseTokens] : t \in LLMResponses}

AgentStep ==
    /\ pc = "step"
    /\ \E res \in StepResults : \E second \in LLMResponses :
         LET cur == documents[doc_index + 1]
             m == StepModel(cur)
             x == StepExtraction(res.text, second,
                                 StepOwnModel(dev_mode, current_tier, cur),
                                 StepType(cur), unique, metrics)
             final == x.final
         IN  /\ x.ran \/ second = <<>>
             /\ current_model' = m
             /\ mm_model_name' = IF m # current_model THEN m ELSE mm_model_name
             /\ cumulative_tokens' = <<cumulative_tokens[1] + res.tokens[1],
                                       cumulative_tokens[2] + res.tokens[2]>>
             /\ saved_metrics' = save_metrics(cumulative_tokens'[1], cumulative_tokens'[2])
             /\ unique' = final.unique
             /\ metrics' = final.metrics
             /\ Emit(SwapEvents(m)
                     \o StepOutput(<<Ev("thought", doc_index, "COMPLETE", 0, CycleId)>>,
                                   <<Ev("performance", 0, "", 0, CycleId)>>,
                                   MetricEvs(final.out),
                                   AnalyzedEvs(doc_index, batch_size)))
    /\ doc_index' = doc_index + 1
    /\ pc' = "loop"
    /\ UNCHANGED <<handler, cfg, total_docs, docs_in_current_batch, batch_size,
                   mm_context_tokens, baseline_swap_gb, should_crash,
                   active_documents, total_tokens, vector_db, monitor_task,
                   cycle_log>>

\* an exception inside the try of the step, before the model call: at the
\* start of the step or, when a swap is due, in the memory reading after the
\* swap status.  The except clause builds ThoughtData(status="ERROR"); when
\* that is not a valid ThoughtData the validation error leaves the run.
AgentStepFails ==
    /\ pc = "step"
    /\ \E in_swap \in BOOLEAN :
         LET m == StepModel(documents[doc_index + 1])
             before == IF in_swap THEN <<Ev("status", 0, "swap", 0, CycleId)>> ELSE <<>>
         IN  /\ in_swap => m # current_model
             /\ current_model' = IF in_swap THEN m ELSE current_model
             /\ mm_model_name' = IF in_swap THEN m ELSE mm_model_name
             /\ IF ThoughtDataValid("ERROR")
                THEN /\ Emit(before \o <<Ev("thought", doc_index, "ERROR", 0, CycleId)>>)
                     /\ doc_index' = doc_index + 1
                     /\ pc' = "loop"
                ELSE /\ Emit(before)
                     /\ doc_index' = doc_index
                     /\ pc' = "raised"
    /\ UNCHANGED <<handler, cfg, total_docs, docs_in_current_batch, batch_size, metrics,
                   unique, cumulative_tokens, saved_metrics, mm_context_tokens,
                   baseline_swap_gb, should_crash, active_documents,
                   total_tokens, vector_db, monitor_task, cycle_log>>

(***************************************************************************)
(* End of the run (orchestrator.py:398-399) and of the session             *)
(* (websocket.py:85-101).                                                  *)
(***************************************************************************)
\* the event the run yields after the last document
FinalEvent == Ev("status", 0, "final", 0, 0)

Finish ==
    /\ pc = "loop"
    /\ doc_index = total_docs
    /\ Emit(<<FinalEvent>>)
    /\ pc' = "done"
    /\ UNCHANGED <<handler, cfg, total_docs, doc_index, docs_in_current_batch, batch_size,
                   current_model, metrics, unique, cumulative_tokens,
                   saved_metrics, mm_context_tokens, mm_model_name,
                   baseline_swap_gb, should_crash, active_documents,
                   total_tokens, vector_db, monitor_task, cycle_log>>

\* the finally block leaves the task as it found it
TaskLeftAlone(task) == {task}

\* finally (websocket.py:93-101): a task still running is signalled to stop
\* and waited for; it ends by itself within the timeout or is cancelled
TaskAfterFinally(task) ==
    IF task = "running" THEN {"stopped", "cancelled"} ELSE {task}

\* the handler leaves its try block: the run is over, has raised, or the
\* client is gone (websocket.py:85-101)
HandlerFinally ==
    /\ pc \in {"done", "raised", "disconnected"}
    /\ handler = "open"
    /\ monitor_task' \in TaskAfterFinally(monitor_task)
    /\ handler' = "returned"
    /\ UNCHANGED <<pc, cfg, total_docs, doc_index, docs_in_current_batch,
                   batch_size, current_model, metrics, unique, cumulative_tokens,
                   saved_metrics, mm_context_tokens, mm_model_name,
                   baseline_swap_gb, should_crash, active_documents,
                   total_tokens, vector_db, events, sent, cycle_log>>

Next ==
    \/ ConstructFails
    \/ Construct
    \/ StartRun
    \/ ProcessDocumentIndexError
    \/ ProcessDocument
    \/ WaitWithTelemetry
    \/ AgentCycleSkip
    \/ AgentCycleNoSGP
    \/ AgentCycleBegin
    \/ AgentStep
    \/ AgentStepFails
    \/ Finish
    \/ HandlerFinally

Spec == Init /\ [][Next]_vars

(***************************************************************************)
(* The components taken alone.  The Context Store, the Metric Extractor    *)
(* and the Memory Monitor are objects of their own; each is constructed    *)
(* and then called directly, with arguments drawn from bounded sets.       *)
(***************************************************************************)
\* the objects as constructed, before any session: the flag, the
\* availability of the retrieval index and the baseline swap reading are the
\* inputs of the constructors
Standalone(flags, indexes, baselines) ==
    /\ pc = "standalone"
    /\ aidaptiv_enabled \in flags
    /\ use_ollama = FALSE
    /\ ollama_available = FALSE
    /\ sgp_loader = TRUE
    /\ chroma_client \in indexes
    /\ dev_mode = FALSE
    /\ current_tier = detect_tier(aidaptiv_enabled, "standard")
    /\ documents = <<>>
    /\ total_docs = 0
    /\ doc_index = 0
    /\ docs_in_current_batch = 0
    /\ batch_size = 0
    /\ current_model = "llama3.1:8b"
    /\ metrics = ZeroMetrics
    /\ unique = NoValues
    /\ cumulative_tokens = <<0, 0>>
    /\ saved_metrics = PersistedMetrics
    /\ mm_context_tokens = 0
    /\ mm_model_name = "llama3.1:8b"
    /\ baseline_swap_gb \in baselines
    /\ should_crash = FALSE
    /\ active_documents = <<>>
    /\ total_tokens = 0
    /\ vector_db = <<>>
    /\ events = <<>>
    /\ sent = <<>>
    /\ monitor_task = "none"
    /\ cycle_log = <<>>
    /\ call = NoCall
    /\ handler = "open"

\* what a call on the Context Store leaves alone
outside_store == <<handler, pc, aidaptiv_enabled, use_ollama, ollama_available, sgp_loader,
                   chroma_client, current_tier, dev_mode, documents, total_docs,
                   docs_in_current_batch, batch_size, current_model, metrics,
                   unique, cumulative_tokens, saved_metrics, mm_context_tokens,
                   mm_model_name, baseline_swap_gb, should_crash, events, sent,
                   monitor_task, cycle_log>>

(***************************************************************************)
(* The Context Store called alone (context_manager.py).                    *)
(***************************************************************************)
\* number of add_document calls made on the store
MaxAdmits == 4

\* the documents admitted: [chars, tokens] with tokens = chars // 4, or the
\* size estimate when the document has no content (orchestrator.py:591-592)
AdmitDocs == {[chars |-> 0, tokens |-> 2000],
              [chars |-> 8000, tokens |-> 2000],
              [chars |-> 120002, tokens |-> 30000],
              [chars |-> 280000, tokens |-> 70000]}

\* max_tokens of a retrieve_context call
RetrieveBudgets == {0, 2000, 3999, 32000, 100000}

StoreInit == Standalone({FALSE}, BOOLEAN, {0})

\* add_document(document, token_count), the document named by its rank
StoreAdmit ==
    /\ pc = "standalone"
    /\ doc_index < MaxAdmits
    /\ \E d \in AdmitDocs :
         LET st == add_document(active_documents, total_tokens, vector_db,
                                chroma_client, doc_index, d.chars, d.tokens)
         IN  /\ active_documents' = st.active
             /\ total_tokens' = st.total
             /\ vector_db' = st.db
             /\ call' = [op |-> "admit", tokens |-> d.tokens]
    /\ doc_index' = doc_index + 1
    /\ UNCHANGED outside_store

\* retrieve_context(query, max_tokens, exclude_titles) on the index as it is
StoreRetrieve ==
    /\ pc = "standalone"
    /\ \E max_tokens \in RetrieveBudgets :
       \E exclude_titles \in {{}} \cup {{t} : t \in 0..(doc_index - 1)} :
         LET r == retrieve_context(vector_db, chroma_client, max_tokens, exclude_titles)
         IN  call' = [op |-> "retrieve", max_tokens |-> max_tokens,
                      exclude_titles |-> exclude_titles,
                      docs |-> r.docs, tokens |-> r.tokens,
                      excluded |-> r.excluded, candidates |-> r.candidates,
                      documents_retrieved |-> r.documents_retrieved,
                      names |-> r.names]
    /\ UNCHANGED <<outside_store, doc_index, active_documents, total_tokens, vector_db>>

StoreNext ==
    \/ StoreAdmit
    \/ StoreRetrieve

StoreSpec == StoreInit /\ [][StoreNext]_vars

(***************************************************************************)
(* The Metric Extractor called alone (orchestrator.py:816-861).            *)
(***************************************************************************)
\* number of _extract_metrics calls of a run
MaxExtracts == 2

\* number of tags in a text
MaxTags == 2

AcmeLower == <<"a", "c", "m", "e">>
AcmePadded == <<"A", "c", "m", "e", " ">>

\* the tags a text is made of
TextTags == {Tag("TOPIC", Acme), Tag("topic", AcmeLower), Tag("TOPIC", AcmePadded),
             Tag("PATTERN", Acme), Tag("flag", VerticalIntegration)}

\* the texts handed to the extractor
Texts == UNION {[1..n -> TextTags] : n \in 0..MaxTags} \cup {TaggedText}

ExtractInit == Standalone({FALSE}, {TRUE}, {0})

\* events = self._extract_metrics(text); the caller yields the events
Extract ==
    /\ pc = "standalone"
    /\ Len(cycle_log) < MaxExtracts
    /\ \E text \in Texts :
         LET r == _extract_metrics(text, unique, metrics)
         IN  /\ unique' = r.unique
             /\ metrics' = r.metrics
             /\ events' = events \o MetricEvs(r.out)
             /\ call' = [op |-> "extract", text |-> text, out |-> r.out,
                         fresh |-> cycle_log = <<>>]
    /\ cycle_log' = Append(cycle_log, [doc_index |-> 0, batch_size |-> 0, category |-> ""])
    \* each call is made by the Agent Cycle of one batch
    /\ UNCHANGED <<handler, pc, aidaptiv_enabled, use_ollama, ollama_available, sgp_loader,
                   chroma_client, current_tier, dev_mode, documents, total_docs,
                   doc_index, docs_in_current_batch, batch_size, current_model,
                   cumulative_tokens, saved_metrics, mm_context_tokens,
                   mm_model_name, baseline_swap_gb, should_crash,
                   active_documents, total_tokens, vector_db, sent, monitor_task>>

ExtractNext == Extract

ExtractSpec == ExtractInit /\ [][ExtractNext]_vars

(***************************************************************************)
(* The extraction of a step taken alone (orchestrator.py:778-789): the     *)
(* step of each workflow, a completed text and the text of a second pass.  *)
(***************************************************************************)
\* number of steps run
MaxStepCalls == 2

\* the kinds of document whose workflow has a step
StepKinds == {k \in Kinds : HasSteps(k)}

\* the texts a model call returns
StepTexts == {<<>>, TaggedText, <<Tag("TOPIC", Acme)>>, <<Tag("flag", VerticalIntegration)>>}

StepInit == Standalone({FALSE}, {TRUE}, {0})

StepMetrics ==
    /\ pc = "standalone"
    /\ Len(cycle_log) < MaxStepCalls
    /\ \E k \in StepKinds, text \in StepTexts, second \in StepTexts :
         LET own_model == StepOwnModel(dev_mode, current_tier, k)
             x == StepExtraction(text, second, own_model, StepType(k), unique, metrics)
         IN  /\ x.ran \/ second = <<>>
             /\ unique' = x.final.unique
             /\ metrics' = x.final.metrics
             /\ events' = events \o MetricEvs(x.final.out)
             /\ call' = [op |-> "step", own_model |-> own_model,
                         step_type |-> StepType(k), text |-> text,
                         second |-> second, ran |-> x.ran, out |-> x.final.out,
                         unique |-> unique, metrics |-> metrics]
             /\ cycle_log' = Append(cycle_log, [doc_index |-> 0, batch_size |-> 1,
                                                category |-> Category(k)])
    /\ UNCHANGED <<handler, pc, aidaptiv_enabled, use_ollama, ollama_available, sgp_loader,
                   chroma_client, current_tier, dev_mode, documents, total_docs,
                   doc_index, docs_in_current_batch, batch_size, current_model,
                   cumulative_tokens, saved_metrics, mm_context_tokens,
                   mm_model_name, baseline_swap_gb, should_crash,
                   active_documents, total_tokens, vector_db, sent, monitor_task>>

StepNext == StepMetrics

StepSpec == StepInit /\ [][StepNext]_vars

(***************************************************************************)
(* The Memory Monitor called alone (memory_monitor.py).  The baseline is   *)
(* the swap usage read by the constructor; every calculate_memory call     *)
(* reads the swap usage anew.                                              *)
(***************************************************************************)
\* number of calculate_memory calls made on one monitor
MaxSnapshots == 3

\* swap usage the system can report, in tenths of a GB
MonitorReadings == {0, 15, 35, 36, 80, 100, 101}

\* swap usage at construction: none, some, much
MonitorBaselines == {0, 15, 80}

MonitorInit == Standalone(BOOLEAN, {TRUE}, MonitorBaselines)

\* the readings and the decisions of the calls made so far
Readings == IF call.op = "snapshot" THEN call.readings ELSE <<>>

Decisions == IF call.op = "snapshot" THEN call.decisions ELSE <<>>

\* memory_data, should_crash = memory_monitor.calculate_memory()
Snapshot ==
    /\ pc = "standalone"
    /\ Len(Readings) < MaxSnapshots
    /\ \E swap \in MonitorReadings :
         /\ should_crash' = CrashDecision(aidaptiv_enabled, baseline_swap_gb, swap)
         /\ call' = [op |-> "snapshot",
                     readings |-> Append(Readings, swap),
                     decisions |-> Append(Decisions, should_crash')]
    /\ UNCHANGED <<handler, pc, aidaptiv_enabled, use_ollama, ollama_available, sgp_loader,
                   chroma_client, current_tier, dev_mode, documents, total_docs,
                   doc_index, docs_in_current_batch, batch_size, current_model,
                   metrics, unique, cumulative_tokens, saved_metrics,
                   mm_context_tokens, mm_model_name, baseline_swap_gb,
                   active_documents, total_tokens, vector_db, events, sent,
                   monitor_task, cycle_log>>

MonitorNext == Snapshot

MonitorSpec == MonitorInit /\ [][MonitorNext]_vars

(***************************************************************************)
(* The session with its periodic telemetry task (websocket.py:49-101).     *)
(* The task and the main sequence share the socket: the task may send      *)
(* whenever the main sequence is suspended in an await.                    *)
(***************************************************************************)
\* documents of a session
SessionDocs == 2

\* memory messages the periodic task sends in a session
MaxTicks == 1

\* what the periodic task and a disconnection leave alone
run_state == <<cfg, total_docs, doc_index, docs_in_current_batch, batch_size,
               current_model, metrics, unique, cumulative_tokens, saved_metrics,
               mm_context_tokens, mm_model_name, baseline_swap_gb, should_crash,
               active_documents, total_tokens, vector_db, events, cycle_log>>

MemoryMessages == Cardinality({p \in 1..Len(sent) : sent[p] = "memory"})

SessionInit == Init /\ Len(documents) <= SessionDocs

\* one turn of continuous_memory_monitor (websocket.py:55-60): the stop
\* signal is not set, the snapshot is sent
MonitorTick ==
    /\ monitor_task = "running"
    /\ pc # "disconnected"
    /\ MemoryMessages < MaxTicks
    /\ sent' = Append(sent, "memory")
    /\ UNCHANGED <<run_state, pc, monitor_task, handler>>

\* the send of the periodic task raises, the task leaves its loop
\* (websocket.py:61-63)
MonitorBreaks ==
    /\ monitor_task = "running"
    /\ pc = "disconnected"
    /\ monitor_task' = "stopped"
    /\ UNCHANGED <<run_state, pc, sent, handler>>

\* the client goes away while the run is streamed: WebSocketDisconnect in
\* the main sequence (websocket.py:68-86)
ClientDisconnects ==
    /\ pc \in {"ready", "loop", "wait", "cycle", "step"}
    /\ pc' = "disconnected"
    /\ UNCHANGED <<run_state, sent, monitor_task, handler>>

SessionNext ==
    \/ Next
    \/ MonitorTick
    \/ MonitorBreaks
    \/ ClientDisconnects

SessionSpec == SessionInit /\ [][SessionNext]_vars

(***************************************************************************)
(* The run with a Retrieval Index that fails (chroma_client.py): any call  *)
(* on the index made by a cycle may raise.                                 *)
(***************************************************************************)
\* documents of a run with a failing index
DegradedDocs == 2

DegradedInit == Init /\ Len(documents) <= DegradedDocs

AgentCycleBeginDegraded ==
    /\ chroma_client
    /\ \E index_raises \in BOOLEAN, count_raises \in BOOLEAN, query_raises \in BOOLEAN :
           /\ index_raises \/ count_raises \/ query_raises
           /\ AgentCycleBeginWith(index_raises, count_raises, query_raises)
           /\ call' = [op |-> "cycle", cycle |-> CycleId,
                       index_raises |-> index_raises,
                       count_raises |-> count_raises,
                       query_raises |-> query_raises]

DegradedNext ==
    \/ Next
    \/ AgentCycleBeginDegraded

DegradedSpec == DegradedInit /\ [][DegradedNext]_vars

(***************************************************************************)
(* Two sessions open at the same time in one process (websocket.py:18-47): *)
(* each handler constructs its own orchestrator, and every orchestrator    *)
(* reads and writes the same metrics file.  Of the second session only the *)
(* part that touches the file is kept: the load at construction and the    *)
(* write after each step; its counters are in the record `call`.           *)
(***************************************************************************)
\* documents of the first run
ConcurrentDocs == 2

\* reasoning responses of the second run
MaxPeerResponses == 1

ConcurrentInit == Init /\ Len(documents) <= ConcurrentDocs

\* what the second session leaves alone
outside_metrics == <<handler, pc, session_cfg, total_docs, doc_index,
                     docs_in_current_batch, batch_size, current_model, metrics,
                     unique, cumulative_tokens, mm_context_tokens, mm_model_name,
                     baseline_swap_gb, should_crash, active_documents,
                     total_tokens, vector_db, events, sent, monitor_task, cycle_log>>

\* the second orchestrator is constructed: load_metrics
\* (orchestrator.py:123-127, session_manager.py:69-79)
PeerConstruct ==
    /\ call.op = "none"
    /\ call' = [op |-> "run", loaded |-> saved_metrics, cumulative |-> saved_metrics,
                responses |-> 0, finished |-> FALSE]
    /\ UNCHANGED <<outside_metrics, saved_metrics>>

\* a step of the second run: the counters of its orchestrator are advanced
\* and written, with no suspension in between (orchestrator.py:754-761)
PeerStep ==
    /\ call.op = "run"
    /\ ~call.finished
    /\ call.responses < MaxPeerResponses
    /\ LET cumulative == <<call.cumulative[1] + ResponseTokens[1],
                           call.cumulative[2] + ResponseTokens[2]>>
       IN  /\ call' = [call EXCEPT !.cumulative = cumulative, !.responses = @ + 1]
           /\ saved_metrics' = save_metrics(cumulative[1], cumulative[2])
    /\ UNCHANGED outside_metrics

\* the second run ends
PeerFinish ==
    /\ call.op = "run"
    /\ ~call.finished
    /\ call' = [call EXCEPT !.finished = TRUE]
    /\ UNCHANGED <<outside_metrics, saved_metrics>>

ConcurrentNext ==
    \/ Next
    \/ PeerConstruct
    \/ PeerStep
    \/ PeerFinish

ConcurrentSpec == ConcurrentInit /\ [][ConcurrentNext]_vars

(***************************************************************************)
(* Properties of the run's event sequence.                                 *)
(***************************************************************************)
Last(seq) == seq[Len(seq)]

Positions(type) == {p \in 1..Len(events) : events[p].type = type}

AnalyzedPositions(j) ==
    {p \in 1..Len(events) : /\ events[p].type = "document_status"
                            /\ events[p].tag = "vram"
                            /\ events[p].idx = j}

\* C1: a crash event, when the run yields one, is the last event of the
\* run: no event of any type follows it.
C1_CrashIsLastEvent ==
    \A p \in 1..Len(events) : events[p].type = "crash" => p = Len(events)

C1_Witness ==
    /\ pc = "done"
    /\ monitor_task = "stopped"
    /\ Positions("crash") # {}
    /\ Len(events) > 6

\* C2: with the flag off, when the per-document snapshot returns
\* should_crash = TRUE the run ends at that crash check: the crash event is
\* yielded, no Agent Cycle is triggered for the document, no later document
\* is taken up and nothing is yielded afterwards.
C2_CrashCheckTerminates ==
    [][(~aidaptiv_enabled /\ should_crash') =>
          /\ pc' = "done"
          /\ Last(events').type = "crash"
          /\ cycle_log' = cycle_log
          /\ doc_index' = doc_index
          /\ (should_crash => events' = events)]_vars

C2_Witness ==
    /\ ~aidaptiv_enabled
    /\ should_crash
    /\ doc_index = 2
    /\ Len(cycle_log) = 2
    /\ monitor_task = "stopped"

\* C3: with the flag on the run never yields a crash event, and when the
\* run has ended a document event has been yielded for every document of
\* the list.
C3_FlagOnProcessesEveryDocument ==
    aidaptiv_enabled =>
        /\ Positions("crash") = {}
        /\ (pc \in {"done", "raised"} =>
               Cardinality(Positions("document")) = Len(documents))

\* C4: a run that has ended has yielded exactly one terminal event,
\* complete or crash, as its last event.
C4_EndsWithTerminalEvent ==
    pc = "done" =>
        /\ Last(events).type \in {"complete", "crash"}
        /\ Cardinality(Positions("complete") \cup Positions("crash")) = 1

\* C5: the k-th document event is the one of index k-1 and is followed at
\* once by document_status(processing) of that index and by a memory event;
\* a crash event comes after the document, status and memory events of the
\* document it stops at, with no other document event in between.
C5_DocumentMemoryCrashOrder ==
    /\ \A p \in Positions("document") :
           /\ events[p].idx = Cardinality({q \in Positions("document") : q < p})
           /\ p + 2 <= Len(events)
           /\ events[p + 1].type = "document_status"
           /\ events[p + 1].tag = "processing"
           /\ events[p + 1].idx = events[p].idx
           /\ events[p + 2].type = "memory"
    /\ \A c \in Positions("crash") :
           \E p \in Positions("document") :
               /\ p + 2 < c
               /\ events[p].idx = doc_index
               /\ events[p + 2].type = "memory"
               /\ \A q \in Positions("document") : q <= p

C5_Witness ==
    /\ Positions("crash") # {}
    /\ doc_index = 1
    /\ Cardinality(Positions("document")) = 2
    /\ Cardinality(Positions("memory")) >= 2

\* C6: a step of an Agent Cycle, failed or not, yields a thought event and
\* the run goes on with the next document: no exception of a step leaves
\* the run.
C6_StepFailureIsContained ==
    [][pc = "step" =>
          /\ pc' = "loop"
          /\ doc_index' = doc_index + 1
          /\ \E p \in (Len(events) + 1)..Len(events') : events'[p].type = "thought"]_vars

\* C7: when the backend is required and unavailable the construction fails:
\* no event is yielded or sent and the telemetry task is never started.
C7_NoRunWithoutBackend ==
    (use_ollama /\ ~ollama_available) =>
        /\ pc \in {"new", "failed"}
        /\ events = <<>>
        /\ sent = <<>>
        /\ monitor_task = "none"

C7_Witness == pc = "failed" /\ use_ollama /\ ~ollama_available

\* C8: no Agent Cycle covers more than 4 documents; once the loop is past a
\* maximal stretch of n consecutive documents of one category that is not
\* processed individually, the stretch has triggered exactly ceil(n/4)
\* cycles, of sizes 4, ..., 4 and then the remainder, each closing at the
\* last document it covers.
IndividuallyProcessed(k) == k \in {"image", "transcript"}

\* positions a..b (1-based) form a maximal same-category stretch
IsStretch(a, b) ==
    /\ a <= b
    /\ \A j \in a..b : /\ Category(documents[j]) = Category(documents[a])
                       /\ ~IndividuallyProcessed(documents[j])
    /\ a > 1 => Category(documents[a - 1]) # Category(documents[a])
    /\ b < Len(documents) => Category(documents[b + 1]) # Category(documents[a])

CyclesOf(a, b) == SelectSeq(cycle_log, LAMBDA e : e.doc_index + 1 \in a..b)

C8_BatchCeiling ==
    /\ \A c \in 1..Len(cycle_log) : cycle_log[c].batch_size <= 4
    /\ \A a \in 1..Len(documents) : \A b \in a..Len(documents) :
         (IsStretch(a, b) /\ pc \notin {"new", "ready", "failed"} /\ doc_index >= b) =>
             LET n == b - a + 1
                 cyc == CyclesOf(a, b)
             IN  /\ Len(cyc) = (n + 3) \div 4
                 /\ \A k \in 1..Len(cyc) :
                        /\ cyc[k].batch_size = IF k < Len(cyc) THEN 4 ELSE n - 4 * (Len(cyc) - 1)
                        /\ cyc[k].doc_index + 1 = IF k < Len(cyc) THEN a + 4 * k - 1 ELSE b

C8_Witness ==
    /\ pc = "done"
    /\ Len(documents) = 5
    /\ IsStretch(1, 5)
    /\ Len(cycle_log) = 2
    /\ cycle_log[1].batch_size = 4
    /\ cycle_log[2].batch_size = 1

\* C9: within one Agent Cycle the thought event comes before every metric
\* event and before every analyzed document_status event of that cycle.
C9_ThoughtFirst ==
    \A p \in 1..Len(events) :
        (events[p].type = "metric"
         \/ (events[p].type = "document_status" /\ events[p].tag = "vram")) =>
            \E q \in 1..(p - 1) : /\ events[q].type = "thought"
                                  /\ events[q].cycle = events[p].cycle

C9_Witness ==
    \E p \in Positions("metric") : \E q \in 1..Len(events) :
        /\ events[q].type = "document_status"
        /\ events[q].tag = "vram"
        /\ events[q].cycle = events[p].cycle
        /\ events[q].idx < doc_index - 1

\* the cycle c has returned and none of its steps failed
CycleCompleted(c) ==
    /\ pc \notin {"new", "ready", "failed"}
    /\ doc_index > cycle_log[c].doc_index
    /\ \A p \in Positions("thought") : events[p].cycle = c => events[p].tag # "ERROR"

BatchOf(c) ==
    (cycle_log[c].doc_index - cycle_log[c].batch_size + 1)..cycle_log[c].doc_index

MarkedExactly(c) ==
    /\ \A j \in BatchOf(c) : Cardinality(AnalyzedPositions(j)) = 1
    /\ \A p \in 1..Len(events) :
           (events[p].type = "document_status" /\ events[p].tag = "vram"
            /\ events[p].cycle = c) => events[p].idx \in BatchOf(c)

\* C10 as stated: whenever a batch has closed and its Agent Cycle has run
\* without a step failure, every document of the batch has exactly one
\* analyzed event and no index outside the batch has one from that cycle.
C10_EveryClosedBatchMarked ==
    \A c \in 1..Len(cycle_log) : CycleCompleted(c) => MarkedExactly(c)

\* C10 amended: a cycle that ran its step (backend enabled, the closing
\* document's category has a workflow) marks every document of its batch
\* exactly once and none outside; a cycle that returned early marks none.
C10_MarkedWhenStepRan ==
    \A c \in 1..Len(cycle_log) :
        CycleCompleted(c) =>
            IF use_ollama /\ HasSteps(documents[cycle_log[c].doc_index + 1])
            THEN MarkedExactly(c)
            ELSE \A p \in 1..Len(events) :
                     events[p].cycle = c => events[p].type # "document_status"

C10_Witness ==
    /\ pc = "done"
    /\ use_ollama
    /\ Len(cycle_log) >= 2
    /\ ~HasSteps(documents[cycle_log[1].doc_index + 1])
    /\ cycle_log[2].batch_size >= 2
    /\ \A j \in BatchOf(2) : Cardinality(AnalyzedPositions(j)) = 1

\* the entries the Context Store holds, or has archived, under the title i
StoreEntries(i) ==
    {p \in 1..Len(active_documents) : active_documents[p].title = i}

Archived(i) ==
    {p \in 1..Len(vector_db) : vector_db[p].title = i /\ vector_db[p].archived}

\* C11: every document the run has processed was admitted to the Context
\* Store exactly once, and before its memory snapshot was computed: once the
\* memory event that follows a document event has been yielded, the store
\* holds (or has evicted to the index) exactly one entry of that document.
C11_AdmittedBeforeSnapshot ==
    \A p \in Positions("document") :
        (p + 2 <= Len(events) /\ events[p + 2].type = "memory") =>
            Cardinality(StoreEntries(events[p].idx)) + Cardinality(Archived(events[p].idx)) = 1

(***************************************************************************)
(* Properties of the Context Store.                                        *)
(***************************************************************************)
RECURSIVE SumTokens(_)
SumTokens(entries) ==
    IF entries = <<>> THEN 0 ELSE Head(entries).tokens + SumTokens(Tail(entries))

\* len(text) // 4 summed over passages
RECURSIVE SumEstimated(_)
SumEstimated(passages) ==
    IF passages = <<>> THEN 0
    ELSE (Head(passages).chars \div 4) + SumEstimated(Tail(passages))

C13_TotalIsSumOfActive == total_tokens = SumTokens(active_documents)

C13_Witness ==
    /\ chroma_client
    /\ doc_index = 4
    /\ Len(active_documents) = 2
    /\ total_tokens = 32000

\* C14: the estimated token counts (len(text) div 4) of the passages a
\* retrieve call returns sum to at most its max_tokens, whatever the
\* candidates and the budget.
C14_RetrieveWithinBudget ==
    call.op = "retrieve" => SumEstimated(call.docs) <= call.max_tokens

C14_Witness ==
    /\ call.op = "retrieve"
    /\ call.max_tokens = 3999
    /\ Len(call.docs) = 1
    /\ call.excluded = 1
    /\ call.candidates >= 3

(***************************************************************************)
(* Properties of the Metric Extractor.                                     *)
(***************************************************************************)
\* a value without its leading and trailing blanks
Trimmed(v) ==
    LET inked == {i \in 1..Len(v) : v[i] # " "}
    IN  IF inked = {} THEN <<>>
        ELSE SubSeq(v, CHOOSE i \in inked : \A j \in inked : i <= j,
                       CHOOSE i \in inked : \A j \in inked : j <= i)

\* a value with its letters folded to lower case
Folded(v) == [i \in 1..Len(v) |-> IF v[i] = "A" THEN "a" ELSE v[i]]

MetricEvents(n) == {p \in 1..Len(events) : events[p].type = "metric" /\ events[p].tag = n}

\* C15 as stated: each distinct tag value, compared after case and whitespace
\* normalization, increments its counter at most once and produces at most
\* one metric event: a counter never exceeds the number of distinct
\* normalized values met.
C15_DedupCaseFolded ==
    \A i \in 1..4 :
        LET n == MetricNames[i]
            normalized == {Folded(Trimmed(v)) : v \in unique[n]}
        IN  /\ metrics[n] <= Cardinality(normalized)
            /\ Cardinality(MetricEvents(n)) <= Cardinality(normalized)

\* C15 amended: values are compared after trimming only, letter case kept:
\* over any number of calls each distinct trimmed value increments its
\* counter once and produces one metric event, the events of a kind carrying
\* the successive counter values.
C15_DedupTrimmed ==
    \A i \in 1..4 :
        LET n == MetricNames[i]
        IN  /\ \A v \in unique[n] : Trimmed(v) = v
            /\ metrics[n] = Cardinality(unique[n])
            /\ Cardinality(MetricEvents(n)) = metrics[n]
            /\ \A p \in MetricEvents(n) :
                   events[p].idx = Cardinality({q \in MetricEvents(n) : q <= p})

C15_Witness ==
    /\ call.op = "extract"
    /\ ~call.fresh
    /\ Len(call.text) = 2
    /\ call.out = <<>>
    /\ metrics["key_topics"] = 2
    /\ unique["key_topics"] = {Acme, AcmeLower}

\* the distinct trimmed values a text tags with the metric n
TaggedValues(text, n) ==
    {Trimmed(text[i].value) : i \in {j \in 1..Len(text) : MetricOfTag(text[j].tag) = n}}

\* C16: on a fresh run one call yields, for each metric kind, one event per
\* distinct trimmed value tagged with that kind (tag names matched whatever
\* their case) and none for a repeated value; the text with [TOPIC: Acme]
\* twice and [PATTERN: vertical integration] once yields one key_topics
\* event and one patterns_detected event.
C16_OneEventPerDistinctValue ==
    (call.op = "extract" /\ call.fresh) =>
        /\ \A i \in 1..4 :
               Cardinality({p \in 1..Len(call.out) : call.out[p].name = MetricNames[i]})
                   = Cardinality(TaggedValues(call.text, MetricNames[i]))
        /\ call.text = TaggedText =>
               call.out = <<[name |-> "key_topics", value |-> 1],
                            [name |-> "patterns_detected", value |-> 1]>>

C16_Witness ==
    /\ call.op = "extract"
    /\ call.fresh
    /\ call.text = TaggedText
    /\ Len(call.out) = 2
    /\ metrics["key_topics"] = 1

C18_CrashMonotone ==
    (/\ ~aidaptiv_enabled
     /\ \A k \in 1..(Len(Readings) - 1) : Readings[k] <= Readings[k + 1]) =>
        \A j \in 1..Len(Decisions) : \A k \in j..Len(Decisions) :
            Decisions[j] => Decisions[k]

C18_Witness ==
    /\ ~aidaptiv_enabled
    /\ baseline_swap_gb = 0
    /\ Readings = <<15, 36, 101>>
    /\ Decisions = <<FALSE, TRUE, TRUE>>


(***************************************************************************)
(* The periodic telemetry task and the end of the session.                 *)
(***************************************************************************)
\* C19: whenever the session handler has finished (run exhausted, crashed,
\* client disconnected, or error) the periodic telemetry task has terminated,
\* by itself or by cancellation, and no message is sent afterwards.
C19_MonitorEndsWithHandler ==
    [][/\ handler' = "returned" => monitor_task' \in {"none", "stopped", "cancelled"}
       /\ handler = "returned" => sent' = sent]_vars

C19_Witness ==
    /\ handler = "returned"
    /\ pc = "disconnected"
    /\ monitor_task = "cancelled"
    /\ MemoryMessages > 0

\* C20: once the crash message has been sent, no further message is sent on
\* the session, by the main sequence or by the periodic telemetry task.
C20_CrashIsLastMessage ==
    \A p \in 1..Len(sent) : sent[p] = "crash" => p = Len(sent)


(***************************************************************************)
(* Agent Cycles of one run.                                                *)
(***************************************************************************)
\* C21: no two Agent Cycles of a run execute concurrently: a cycle is
\* triggered only when no earlier cycle is in progress, also while the
\* periodic telemetry task is running, and every event a cycle yields is
\* yielded while that cycle is the one in progress and the last triggered.
C21_CyclesSequential ==
    [][/\ Len(cycle_log') # Len(cycle_log) =>
              /\ pc \notin {"cycle", "step"}
              /\ Len(cycle_log') = Len(cycle_log) + 1
       /\ \A q \in (Len(events) + 1)..Len(events') :
              events'[q].cycle > 0 =>
                  /\ pc \in {"cycle", "step"}
                  /\ events'[q].cycle = Len(cycle_log)
                  /\ cycle_log' = cycle_log]_vars

C21_Witness ==
    /\ pc = "step"
    /\ Len(cycle_log) = 2
    /\ monitor_task = "running"
    /\ MemoryMessages > 0
    /\ \E p \in Positions("thought") : events[p].cycle = 1


(***************************************************************************)
(* Cumulative token counters.                                              *)
(***************************************************************************)
\* the completed reasoning responses of the run so far
Responses(evs) ==
    Cardinality({p \in 1..Len(evs) : evs[p].type = "thought" /\ evs[p].tag = "COMPLETE"})

NewEvents == {p \in (Len(events) + 1)..Len(events') : TRUE}

Retrieving ==
    {c \in 1..Len(cycle_log) :
        /\ chroma_client /\ use_ollama /\ sgp_loader
        /\ HasSteps(documents[cycle_log[c].doc_index + 1])
        /\ c < Len(cycle_log) \/ pc # "cycle"}

NewSwaps ==
    {p \in NewEvents : events'[p].type = "status" /\ events'[p].tag = "swap"}

LastMetricEvents(n) ==
    [i \in 1..n |-> [name |-> events[Len(events) - n + i].tag,
                     value |-> events[Len(events) - n + i].idx]]

\* C30: the two-pass fallback extraction is run for a step if and only if
\* the primary extraction over the completed text yielded no metric event
\* and the step names a vision model or is an observation; it is never run
\* when the primary extraction yielded an event; the metric events yielded
\* for the step are those of the extraction re-run over the second text
\* when the fallback ran, those of the primary extraction otherwise.
C30_FallbackIffNothingExtracted ==
    call.op = "step" =>
        LET primary == _extract_metrics(call.text, call.unique, call.metrics)
            rerun == _extract_metrics(call.second, call.unique, call.metrics)
        IN  /\ call.ran <=> (/\ primary.out = <<>>
                             /\ \/ IsLlava(call.own_model)
                                \/ call.step_type = "observation")
            /\ primary.out # <<>> => ~call.ran
            /\ call.out = IF call.ran THEN rerun.out ELSE primary.out
            /\ Len(events) >= Len(call.out)
            /\ LastMetricEvents(Len(call.out)) = call.out

C30_Witness ==
    /\ call.op = "step"
    /\ call.ran
    /\ call.text = TaggedText
    /\ call.step_type = "observation"
    /\ call.own_model = ""
    /\ call.second = <<Tag("flag", VerticalIntegration)>>
    /\ Len(call.out) = 1
    /\ metrics["key_topics"] = 1

(***************************************************************************)
(* The passages that augment a prompt.                                     *)
(***************************************************************************)
\* the titles of the passages the cycle of the rag_retrieval event at p adds
\* to its prompt
Passages(p) ==
    LET used == rag_documents(events[p].tag, BatchOf(events[p].cycle))
    IN  {used[i] : i \in 1..Len(used)}

\* the titles the rag_retrieval event at p names: every passage of the
\* prompt is one of them
Named(p) == {events[p].tag[i] : i \in 1..Len(events[p].tag)}

\* C31 as stated: the passages that augment the prompt of an Agent Cycle
\* never include a passage whose title is that of a document of the current
\* batch or of a document seen earlier in the run.
C31_NoBatchOrSeenPassage ==
    \A p \in Positions("rag_retrieval") :
        \A t \in Passages(p) : t \notin 0..cycle_log[events[p].cycle].doc_index

\* C31 amended: no passage retrieved for an Agent Cycle, and so no passage
\* of its prompt, has the title of a document of the current batch; the
\* passages are those of documents seen earlier in the run.
C31_NoBatchPassage ==
    \A p \in Positions("rag_retrieval") :
        /\ Named(p) \cap BatchOf(events[p].cycle) = {}
        /\ Passages(p) \subseteq Named(p)

\* a cycle has retrieved a passage of an earlier document while the closing
\* document of its batch, a candidate too, was stripped by its title
C31_Witness ==
    \E p \in Positions("rag_retrieval") :
        /\ events[p].aux >= 1
        /\ \E t \in Passages(p) : t < cycle_log[events[p].cycle].doc_index

(***************************************************************************)
(* The order and the end of an eviction.                                   *)
(***************************************************************************)
\* the number of entries an admit has evicted: the entries before the admit
\* and the admitted one, less the entries after it
Evicted == Len(active_documents) + 1 - Len(active_documents')

\* token count of the entry at position i of the sequence the eviction of
\* an admit starts from
PreTokens(i) ==
    IF i <= Len(active_documents) THEN active_documents[i].tokens ELSE call'.tokens

\* C32: an admit evicts only when it pushes total_tokens above
\* max_tokens_ram; the surviving entries are then a suffix, in unchanged
\* order, of the entries before the eviction (oldest removed first), the
\* eviction ends with total_tokens at most 90% of max_tokens_ram or with an
\* empty store, and before its last removal total_tokens was still above
\* the 90% target.
C32_EvictionOldestFirst ==
    [][(call'.op = "admit" /\ doc_index' = doc_index + 1) =>
         /\ Evicted >= 0
         /\ \A i \in 1..Len(active_documents') :
                IF i + Evicted <= Len(active_documents)
                THEN active_documents'[i] = active_documents[i + Evicted]
                ELSE /\ active_documents'[i].title = doc_index
                     /\ active_documents'[i].tokens = call'.tokens
         /\ Evicted > 0 =>
                /\ total_tokens + call'.tokens > max_tokens_ram
                /\ total_tokens' * 10 <= max_tokens_ram * 9 \/ active_documents' = <<>>
                /\ (total_tokens' + PreTokens(Evicted)) * 10 > max_tokens_ram * 9]_vars

\* an admit has evicted the oldest entry and stopped between the 90% target
\* and half of the limit, two older entries surviving with the admitted one
C32_Witness ==
    /\ call.op = "admit"
    /\ doc_index = 4
    /\ Len(active_documents) = 3
    /\ active_documents[1].title = 1
    /\ total_tokens = 34000

(***************************************************************************)
(* The passages a retrieve call accepts.                                   *)
(***************************************************************************)
\* the candidates of the last retrieve call in rank order: the first ten
\* entries of the index, none when the index is unavailable
Ranked ==
    IF chroma_client
    THEN SubSeq(vector_db, 1, IF Len(vector_db) < 10 THEN Len(vector_db) ELSE 10)
    ELSE <<>>

\* the ranked candidates that are neither stripped by title nor empty
Eligible ==
    SelectSeq(Ranked, LAMBDA d : d.title \notin call.exclude_titles /\ d.chars > 0)

\* C33: the passages a retrieve call returns are the longest prefix of the
\* non-excluded, non-empty candidates in rank order whose estimated tokens
\* fit max_tokens: the call stops at the first candidate that overflows and
\* accepts no later one.
C33_GreedyPrefix ==
    call.op = "retrieve" =>
        LET n == Len(call.docs) IN
        /\ n <= Len(Eligible)
        /\ call.docs = SubSeq(Eligible, 1, n)
        /\ SumEstimated(call.docs) <= call.max_tokens
        /\ n < Len(Eligible) => SumEstimated(SubSeq(Eligible, 1, n + 1)) > call.max_tokens

\* a retrieve call has stopped at its first candidate, which overflows,
\* while a later candidate alone would have fitted the budget
C33_Witness ==
    /\ call.op = "retrieve"
    /\ call.docs = <<>>
    /\ call.max_tokens = 3999
    /\ \E i \in 2..Len(Eligible) : Eligible[i].chars \div 4 <= call.max_tokens

(***************************************************************************)
(* The batches of a run.                                                   *)
(***************************************************************************)
\* the document loop has gone through the whole list
Exhausted ==
    /\ pc \notin {"new", "ready", "failed"}
    /\ total_docs = Len(documents)
    /\ doc_index = total_docs

\* C34: the batches handed to Agent Cycles are contiguous index ranges in
\* list order, each of documents of one category, and once the run has
\* exhausted its list every document index belongs to exactly one batch.
C34_BatchesPartition ==
    /\ \A c \in 1..Len(cycle_log) :
           /\ cycle_log[c].batch_size >= 1
           /\ cycle_log[c].doc_index - cycle_log[c].batch_size + 1 =
                  (IF c = 1 THEN 0 ELSE cycle_log[c - 1].doc_index + 1)
           /\ \A j \in BatchOf(c) :
                  /\ j >= 0
                  /\ Category(documents[j + 1]) = cycle_log[c].category
    /\ Exhausted =>
           \A j \in 0..(total_docs - 1) :
               Cardinality({c \in 1..Len(cycle_log) : j \in BatchOf(c)}) = 1

\* a run has exhausted a list of five documents in three batches, one of
\* them of two documents
C34_Witness ==
    /\ Exhausted
    /\ Len(documents) = 5
    /\ Len(cycle_log) = 3
    /\ \E c \in 1..3 : cycle_log[c].batch_size = 2

(***************************************************************************)
(* The persisted counters under two runs.                                  *)
(***************************************************************************)
\* both runs have ended: the first has yielded its last event, the second
\* has finished
BothFinished ==
    /\ pc = "done"
    /\ call.op = "run"
    /\ call.finished

\* C35: when two runs execute concurrently in one process no update of the
\* persisted counters is lost: the persisted value never decreases from one
\* write to the next, and once both runs have finished it is the value
\* persisted before they started plus the tokens of the responses of both.
C35_NoLostUpdate ==
    [][/\ \A k \in 1..2 : saved_metrics'[k] >= saved_metrics[k]
       /\ BothFinished' =>
              \A k \in 1..2 :
                  saved_metrics'[k] =
                      PersistedMetrics[k]
                          + (Responses(events') + call'.responses) * ResponseTokens[k]]_vars

(***************************************************************************)
(* The context accounting at the start of a run.                           *)
(***************************************************************************)
\* the run has yielded its init event and no document event yet
BeforeFirstDocument ==
    Positions("init") # {} /\ Positions("document") = {}

\* C36: at the start of a run, before its first document event, the Context
\* Store has no active entry and total_tokens 0 and the Memory Monitor has
\* context_tokens 0, whatever context state was loaded at construction.
C36_CleanContextAtStart ==
    BeforeFirstDocument =>
        /\ active_documents = <<>>
        /\ total_tokens = 0
        /\ mm_context_tokens = 0

\* a run with the backend on, whose construction set the Memory Monitor to
\* the tokens of the loaded corpus, stands before its first document
C36_Witness ==
    /\ BeforeFirstDocument
    /\ pc = "loop"
    /\ use_ollama
    /\ Len(documents) >= 2
    /\ mm_context_tokens = 0

(***************************************************************************)
(* The four counters and their sets of seen values.                        *)
(***************************************************************************)
\* the metric events named n up to position p of a sequence of events
NamedUpTo(evs, n, p) ==
    {q \in 1..p : evs[q].type = "metric" /\ evs[q].tag = n}

\* C37: after any sequence of extract calls each counter is the number of
\* elements of its own set of seen values; a call adds to the set of a
\* metric the trimmed values tagged with that metric and nothing else, so a
\* value seen for one metric is still counted for another; the events of
\* one name carry the values 1, 2, 3, ... in order, the last one the counter.
C37_CountersMatchSets ==
    [][call'.op = "extract" =>
         \A i \in 1..4 :
            LET n == MetricNames[i] IN
            /\ metrics'[n] = Cardinality(unique'[n])
            /\ unique'[n] = unique[n] \cup TaggedValues(call'.text, n)
            /\ Cardinality(NamedUpTo(events', n, Len(events'))) = metrics'[n]
            /\ \A p \in NamedUpTo(events', n, Len(events')) :
                   events'[p].idx = Cardinality(NamedUpTo(events', n, p))]_vars

\* the same value has been counted as a topic and as a pattern, and a
\* second topic has brought the key_topics counter to 2
C37_Witness ==
    /\ call.op = "extract"
    /\ Acme \in unique["key_topics"]
    /\ Acme \in unique["patterns_detected"]
    /\ metrics["key_topics"] = 2
    /\ metrics["patterns_detected"] = 1
    /\ \E p \in 1..Len(events) :
           events[p].type = "metric" /\ events[p].tag = "key_topics" /\ events[p].idx = 2

(***************************************************************************)
(* Memory snapshots against the state they describe.                       *)
(***************************************************************************)
\* the step is a turn of the periodic telemetry task: a memory message is
\* sent and the run yields nothing
PeriodicSnapshot ==
    /\ events' = events
    /\ Len(sent') = Len(sent) + 1
    /\ sent'[Len(sent')] = "memory"

\* C38: wherever a memory snapshot is taken -- per document, during pacing,
\* after a swap or by the periodic telemetry task -- its loaded_model is the
\* Orchestrator's current model and its context_tokens is the Context
\* Store's total_tokens.
C38_SnapshotMatchesState ==
    [][/\ \A p \in (Len(events) + 1)..Len(events') :
              events'[p].type = "memory" =>
                  /\ events'[p].tag = current_model'
                  /\ events'[p].idx = total_tokens'
       /\ PeriodicSnapshot =>
              /\ mm_model_name = current_model
              /\ mm_context_tokens = total_tokens]_vars

(***************************************************************************)
(* The descriptor of a retrieve call.                                      *)
(***************************************************************************)
\* the candidates the loop of the last retrieve call has looked at: all of
\* them, or those up to the first one that overflows the budget
RECURSIVE Examined(_, _)
Examined(ranked, tokens) ==
    IF ranked = <<>> THEN <<>>
    ELSE LET d == Head(ranked) IN
         IF d.title \in call.exclude_titles \/ d.chars = 0
         THEN <<d>> \o Examined(Tail(ranked), tokens)
         ELSE IF tokens + (d.chars \div 4) > call.max_tokens
              THEN <<d>>
              ELSE <<d>> \o Examined(Tail(ranked), tokens + (d.chars \div 4))

\* C39: the descriptor of a retrieve call agrees with its result:
\* documents_retrieved is the number of passages returned, tokens_retrieved
\* the sum of their estimated tokens, retrieved_document_names their titles
\* in order, excluded_count the number of candidates the call has stripped
\* by title, and documents_retrieved + excluded_count <= candidates_found;
\* with the index unavailable the result is empty and every count is 0.
C39_DescriptorConsistent ==
    call.op = "retrieve" =>
        /\ call.documents_retrieved = Len(call.docs)
        /\ call.tokens = SumEstimated(call.docs)
        /\ call.names = [i \in 1..Len(call.docs) |-> call.docs[i].title]
        /\ call.excluded =
               Len(SelectSeq(Examined(Ranked, 0),
                             LAMBDA d : d.title \in call.exclude_titles))
        /\ call.candidates = Len(Ranked)
        /\ call.documents_retrieved + call.excluded <= call.candidates
        /\ ~chroma_client =>
               /\ call.docs = <<>>
               /\ call.documents_retrieved = 0
               /\ call.tokens = 0
               /\ call.excluded = 0
               /\ call.candidates = 0

\* a retrieve call has found three candidates, stripped one by its title
\* and returned one passage of 2000 tokens, the third overflowing
C39_Witness ==
    /\ call.op = "retrieve"
    /\ call.candidates = 3
    /\ call.excluded = 1
    /\ call.documents_retrieved = 1
    /\ call.tokens = 2000
    /\ Len(call.names) = 1

====
